---- MODULE Spec2Model ----
(***************************************************************************)
(* The real-time messaging layer of textile-backend (utils/socketService): *)
(* the session directory, the socket rooms, and the send_message,          *)
(* join_conversations and mark_messages_read handlers, each cut at its     *)
(* awaits, running against the persistent store.                           *)
(***************************************************************************)
EXTENDS Integers, Sequences, FiniteSets, TLC

\* ------------------------------------------------------------------ bounds
NumUsers == 3
NumConvs == 2
NumConns == 3
MaxReq == 2
MaxTick == 2
MaxBody == 150
MaxTyping == 2
MaxWindows == 3
MaxKey == 1

Users == 1..NumUsers
Convs == 1..NumConvs
Conns == 1..NumConns
Reqs == 1..MaxReq

\* 5 * 60 * 1000 ms, the window of createNotification's duplicate check.
DedupWindowMs == 5 * 60 * 1000
\* content.substring(0, 100)
NotificationContentMax == 100
\* new RateLimiter(30 * 60 * 1000, 1): the window of the AI-insights limiter.
WindowMs == 30 * 60 * 1000

VARIABLES
  now,            \* the wall clock, in ms (Date.now(), and the store's now())
  userStatus,     \* User.status
  participant,    \* ConversationParticipant rows: <<conv, user>> -> [isActive, lastReadAt]
  messages,       \* Message rows in commit order; a row's id is its index
  convUpdatedAt,  \* Conversation.updatedAt
  notifications,  \* Notification rows in commit order
  receipts,       \* MessageReadReceipt rows in commit order
  sessions,       \* UserSession rows in commit order; a row's refresh token
                  \* is its index
  userSockets,    \* SocketService.userSockets: userId -> socketIds[]
  connState,      \* a socket: "new" (not yet connected), "verifying" (in the
                  \* middleware's await), "refused", "open", "closed"
  connUser,       \* socket.userId, attached by the middleware
  handshake,      \* the token the socket presented in its handshake
  rooms,          \* the adapter's rooms: room key -> set of sockets
  requests,       \* RateLimiter.requests of aiInsightsRateLimiter: key -> timestamp
  allowedAt,      \* key -> the times at which isAllowed allowed it, in order
  lastCall,       \* the last aiInsightsRateLimit call: its key and its answer
  wire,           \* every emit so far, in order: [ev, room, to, req, data]
  req             \* the handler invocations: locals and position of each

vars == <<now, userStatus, participant, messages, convUpdatedAt, notifications,
          receipts, sessions, userSockets, connState, connUser, handshake, rooms,
          requests, allowedAt, lastCall, wire, req>>

dbVars == <<userStatus, participant, messages, convUpdatedAt, notifications, receipts,
           sessions>>
sockVars == <<userSockets, connState, connUser, handshake, rooms>>
limVars == <<requests, allowedAt, lastCall>>

\* ------------------------------------------------------------ room keys
UserRoom(u) == <<"user", u>>
ConvRoom(c) == <<"conversation", c>>
RoomKeys == {UserRoom(u) : u \in Users} \cup {ConvRoom(c) : c \in Convs}

\* The sockets of a room that are connected: the ones an emit to it reaches.
Members(room) == {s \in rooms[room] : connState[s] = "open"}

\* The sockets socket.to(room) reaches: the room without the socket itself.
RoomExcept(room, s) == Members(room) \ {s}

\* ------------------------------------------------- the store at start-up
\* Conversation 1 holds every user; conversation c > 1 holds user c alone.
HasRow(c, u) == c = 1 \/ u = c
ParticipantKeys == {k \in Convs \X Users : HasRow(k[1], k[2])}

IsActiveParticipant(c, u) ==
  /\ <<c, u>> \in DOMAIN participant
  /\ participant[<<c, u>>].isActive

\* ---------------------------------------------------- session directory
IsUserOnline(u) == u \in DOMAIN userSockets

GetOnlineUsers == DOMAIN userSockets

RemoveAll(seq, x) == SelectSeq(seq, LAMBDA y : y # x)

\* Mutant: the new id replaces the user's list.
AddUserSocketReplaces(dir, u, s) ==
  [k \in DOMAIN dir \cup {u} |-> IF k = u THEN <<s>> ELSE dir[k]]

AddUserSocket(dir, u, s) ==
  LET cur == IF u \in DOMAIN dir THEN dir[u] ELSE <<>>
  IN  [k \in DOMAIN dir \cup {u} |-> IF k = u THEN Append(cur, s) ELSE dir[k]]

\* Mutant: the filtered list is stored back even when it is empty.
RemoveUserSocketKeepsEmpty(dir, u, s) ==
  LET cur == IF u \in DOMAIN dir THEN dir[u] ELSE <<>>
      updated == RemoveAll(cur, s)
  IN  [k \in DOMAIN dir \cup {u} |-> IF k = u THEN updated ELSE dir[k]]

\* Mutant: the disconnect drops the user's entry, other sockets or not.
RemoveUserSocketDropsUser(dir, u, s) == [k \in DOMAIN dir \ {u} |-> dir[k]]

RemoveUserSocket(dir, u, s) ==
  LET cur == IF u \in DOMAIN dir THEN dir[u] ELSE <<>>
      updated == RemoveAll(cur, s)
  IN  IF Len(updated) = 0
      THEN [k \in DOMAIN dir \ {u} |-> dir[k]]
      ELSE [k \in DOMAIN dir \cup {u} |-> IF k = u THEN updated ELSE dir[k]]

\* ------------------------------------------------------------- handlers
NoReq ==
  [kind |-> "none", pc |-> "idle", conn |-> 0, conv |-> 0, content |-> <<>>,
   ids |-> <<>>, participant |-> "unset", message |-> 0, ts |-> 0,
   others |-> {}, target |-> 0, valid |-> {}, error |-> "", trace |-> <<>>,
   payload |-> "given", senderId |-> 0, token |-> 0, status |-> 0, issued |-> 0]

\* Handler slots are taken in order, so that a request has one number.
FreeSlot(r) ==
  /\ req[r].pc = "idle"
  /\ \A q \in Reqs : q < r => req[q].pc # "idle"

Step(r, name) == Append(req[r].trace, name)

Emit(ev, room, to, r, data) ==
  Append(wire, [ev |-> ev, room |-> room, to |-> to, req |-> r, data |-> data])

\* socket.emit: to the one socket, which gets it while it is connected.
SocketEmit(ev, s, r, data) ==
  Emit(ev, <<"socket", s>>, {t \in {s} : connState[t] = "open"}, r, data)

\* --------------------------------------------------------------- clock
\* A millisecond passes, MaxTick times at most.
Tick ==
  /\ now % DedupWindowMs < MaxTick
  /\ now' = now + 1
  /\ UNCHANGED <<limVars, dbVars, sockVars, wire, req>>

\* ------------------------------------------------------------ credentials
\* A bearer token: whether one was presented at all, whether its signature
\* is the server's, when it expires, and the user id it carries.
NoToken == [present |-> FALSE, signed |-> FALSE, exp |-> 0, userId |-> 0]

\* An id that no User row has.
MissingUser == NumUsers + 1

\* A token of user u that verifies for as long as the clock runs.
ValidToken(u) == [present |-> TRUE, signed |-> TRUE, exp |-> MaxTick + 1, userId |-> u]

\* The handshakes tried: no token, a token signed by somebody else, a token
\* that expires after the first millisecond, and a lasting token for every
\* user and for an id without a User row.
Tokens ==
  {NoToken, [ValidToken(1) EXCEPT !.signed = FALSE], [ValidToken(1) EXCEPT !.exp = 1]}
    \cup {ValidToken(u) : u \in Users \cup {MissingUser}}

\* jwt.verify(token, JWT_SECRET): it throws on a foreign signature and on an
\* expired token.
JwtVerifies(t) == t.signed /\ t.exp > now

\* The duplicate window passes, once.
TickWindow ==
  /\ now < DedupWindowMs
  /\ now' = now + DedupWindowMs
  /\ UNCHANGED <<limVars, dbVars, sockVars, wire, req>>

\* ---------------------------------------------------- connect, disconnect
\* Mutant: the connection handler without its socket.join.
OnConnectionNoRoom(s, u) ==
  /\ connState' = [connState EXCEPT ![s] = "open"]
  /\ connUser' = [connUser EXCEPT ![s] = u]
  /\ userSockets' = AddUserSocket(userSockets, u, s)
  /\ rooms' = rooms

\* The connection handler: register the socket, join the personal room.
OnConnection(s, u) ==
  /\ connState' = [connState EXCEPT ![s] = "open"]
  /\ connUser' = [connUser EXCEPT ![s] = u]
  /\ userSockets' = AddUserSocket(userSockets, u, s)
  /\ rooms' = [rooms EXCEPT ![UserRoom(u)] = @ \cup {s}]

\* io.on('connection'): the middleware has accepted the socket for user u.
Connect(s, u) ==
  /\ connState[s] = "new"
  /\ userStatus[u] = "active"
  /\ handshake' = [handshake EXCEPT ![s] = ValidToken(u)]
  /\ OnConnection(s, u)
  /\ UNCHANGED <<now, limVars, dbVars, wire, req>>

\* next(new Error(...)): the connection attempt ends, no handler is bound.
Refuse(s) ==
  /\ connState' = [connState EXCEPT ![s] = "refused"]
  /\ UNCHANGED <<userSockets, connUser, rooms>>

\* io.use, up to its await: without a token, or with one that jwt.verify
\* throws on, the socket is refused; otherwise user.findUnique is issued.
MiddlewareStart(s, t) ==
  /\ connState[s] = "new"
  /\ handshake' = [handshake EXCEPT ![s] = t]
  /\ IF t.present /\ JwtVerifies(t)
     THEN /\ connState' = [connState EXCEPT ![s] = "verifying"]
          /\ UNCHANGED <<userSockets, connUser, rooms>>
     ELSE Refuse(s)
  /\ UNCHANGED <<now, limVars, dbVars, wire, req>>

\* !user || user.status !== "active", negated.
UserIsActive(id) == id \in Users /\ userStatus[id] = "active"

\* Mutant: the middleware checks that the user exists, not the status.
MiddlewareDecideAnyStatus(s, id) ==
  IF id \in Users THEN OnConnection(s, id) ELSE Refuse(s)

\* What the middleware does with the row findUnique returned: next(), and
\* the connection handler runs, or next(error).
MiddlewareDecide(s, id) ==
  IF UserIsActive(id) THEN OnConnection(s, id) ELSE Refuse(s)

\* user.findUnique returns (or throws, which the catch turns into a refusal).
MiddlewareLookup(s) ==
  /\ connState[s] = "verifying"
  /\ \/ MiddlewareDecide(s, handshake[s].userId)
     \/ Refuse(s)
  /\ UNCHANGED <<now, limVars, dbVars, handshake, wire, req>>

\* socket.on('disconnect'): the socket has left its rooms; deregister it.
Disconnect(s) ==
  /\ connState[s] = "open"
  /\ connState' = [connState EXCEPT ![s] = "closed"]
  /\ userSockets' = RemoveUserSocket(userSockets, connUser[s], s)
  /\ rooms' = [k \in DOMAIN rooms |-> rooms[k] \ {s}]
  /\ UNCHANGED <<now, limVars, dbVars, connUser, handshake, wire, req>>

\* ------------------------------------------------------ join_conversations
JoinPayloads == {<<>>, <<1>>, <<2>>, <<1, 2>>, <<2, 2>>}

Range(seq) == {seq[i] : i \in DOMAIN seq}

\* socket.on('join_conversations'): the handler starts, findMany is issued.
ReceiveJoin(r, s, ids) ==
  /\ FreeSlot(r)
  /\ connState[s] = "open"
  /\ req' = [req EXCEPT ![r] = [NoReq EXCEPT !.kind = "join", !.pc = "findMany",
                                             !.conn = s, !.ids = ids]]
  /\ UNCHANGED <<now, limVars, dbVars, sockVars, wire>>

\* Mutant: the query without its userId filter.
ValidConversationIdsAnyUser(u, ids) ==
  {c \in Range(ids) : \E v \in Users : IsActiveParticipant(c, v)}

\* conversationParticipant.findMany({userId, conversationId: {in}, isActive})
ValidConversationIds(u, ids) == {c \in Range(ids) : IsActiveParticipant(c, u)}

\* The rooms after validConversationIds.forEach(id => socket.join(...)).
JoinRooms(s, valid) ==
  [k \in DOMAIN rooms |->
     IF \E c \in valid : k = ConvRoom(c) THEN rooms[k] \cup {s} ELSE rooms[k]]

\* findMany returns, the socket joins the rooms and gets conversations_joined.
JoinConversations(r) ==
  /\ req[r].kind = "join" /\ req[r].pc = "findMany"
  /\ LET s == req[r].conn
         valid == ValidConversationIds(connUser[s], req[r].ids)
     IN  /\ rooms' = JoinRooms(s, valid)
         /\ wire' = SocketEmit("conversations_joined", s, r, valid)
         /\ req' = [req EXCEPT ![r].pc = "done", ![r].valid = valid,
                               ![r].trace = Step(r, "join")]
  /\ UNCHANGED <<now, limVars, dbVars, userSockets, connState, connUser, handshake>>

\* findMany throws: the catch logs it, nothing is emitted.
JoinFails(r) ==
  /\ req[r].kind = "join" /\ req[r].pc = "findMany"
  /\ req' = [req EXCEPT ![r].pc = "failed"]
  /\ UNCHANGED <<now, limVars, dbVars, sockVars, wire>>

\* ------------------------------------------------- typing_start, typing_stop
\* The typing events emitted so far.
TypingEvents == {i \in DOMAIN wire : wire[i].ev \in {"user_typing", "user_stopped_typing"}}

\* A typing handler: socket.to(`conversation:${data.conversationId}`).emit(ev),
\* with the socket's user and the conversation named in the payload. The
\* handler has no await, so it is one step and takes no slot (request 0).
Typing(s, c, ev) ==
  /\ connState[s] = "open"
  /\ Cardinality(TypingEvents) < MaxTyping
  /\ wire' = Emit(ev, ConvRoom(c), RoomExcept(ConvRoom(c), s), 0,
                  [userId |-> connUser[s], conversationId |-> c])
  /\ UNCHANGED <<now, limVars, dbVars, sockVars, req>>

\* socket.on('typing_start')
TypingStart(s, c) == Typing(s, c, "user_typing")

\* socket.on('typing_stop')
TypingStop(s, c) == Typing(s, c, "user_stopped_typing")

\* ------------------------------------------------------------- deleteAccount
\* user.update({status: inactive, ...}) of deleteAccount.
DeleteAccountUser(u) ==
  /\ userStatus[u] = "active"
  /\ userStatus' = [userStatus EXCEPT ![u] = "inactive"]
  /\ UNCHANGED <<now, limVars, participant, messages, convUpdatedAt, notifications,
                 receipts, sessions, sockVars, wire, req>>

\* userSession.updateMany({where: {userId}, data: {isActive: false}})
DeleteAccountSessions(u) ==
  /\ userStatus[u] = "inactive"
  /\ \E t \in DOMAIN sessions : sessions[t].userId = u /\ sessions[t].isActive
  /\ sessions' = [t \in DOMAIN sessions |->
                    IF sessions[t].userId = u THEN [sessions[t] EXCEPT !.isActive = FALSE]
                    ELSE sessions[t]]
  /\ UNCHANGED <<now, limVars, userStatus, participant, messages, convUpdatedAt, notifications,
                 receipts, sockVars, wire, req>>

\* conversationParticipant.updateMany({where: {userId}, data: {isActive: false}})
DeleteAccountParticipants(u) ==
  /\ userStatus[u] = "inactive"
  /\ \A t \in DOMAIN sessions : sessions[t].userId = u => ~sessions[t].isActive
  /\ \E k \in DOMAIN participant : k[2] = u /\ participant[k].isActive
  /\ participant' = [k \in DOMAIN participant |->
                       IF k[2] = u THEN [participant[k] EXCEPT !.isActive = FALSE]
                       ELSE participant[k]]
  /\ UNCHANGED <<now, limVars, userStatus, messages, convUpdatedAt, notifications,
                 receipts, sessions, sockVars, wire, req>>

\* --------------------------------------------------------------- send_message
Contents == {<<"h", "i">>, <<"o", "k">>}

\* socket.on('send_message'): handleSendMessage starts, findFirst is issued.
ReceiveSend(r, s, c, content) ==
  /\ FreeSlot(r)
  /\ connState[s] = "open"
  /\ req' = [req EXCEPT ![r] = [NoReq EXCEPT !.kind = "send", !.pc = "findFirst",
                                             !.conn = s, !.conv = c,
                                             !.content = content]]
  /\ UNCHANGED <<now, limVars, dbVars, sockVars, wire>>

\* Mutant: a catch that only logs, as the one of mark_messages_read does.
SendThrowsSilently(r) ==
  /\ UNCHANGED wire
  /\ req' = [req EXCEPT ![r].pc = "error", ![r].trace = Step(r, "throw")]

\* The catch of the send_message handler: message_error to the socket.
SendThrows(r) ==
  /\ wire' = SocketEmit("message_error", req[r].conn, r, "Failed to send message")
  /\ req' = [req EXCEPT ![r].pc = "error", ![r].trace = Step(r, "throw")]

\* Mutant: the missing row is reported, and the handler goes on (no return).
SendAuthorizeNoReturn(r, found) ==
  /\ wire' = IF found THEN wire
             ELSE SocketEmit("message_error", req[r].conn, r,
                             "Not authorized to send message to this conversation")
  /\ req' = [req EXCEPT ![r].pc = "create",
                        ![r].participant = IF found THEN "found" ELSE "none",
                        ![r].trace = Step(r, IF found THEN "authorized" ELSE "rejected")]

\* Mutant: the handler emits new_message before it persists anything.
SendAuthorizeThenBroadcast(r, found) ==
  IF found
  THEN /\ req' = [req EXCEPT ![r].pc = "broadcast", ![r].participant = "found",
                             ![r].trace = Step(r, "authorized")]
       /\ UNCHANGED wire
  ELSE /\ wire' = SocketEmit("message_error", req[r].conn, r,
                             "Not authorized to send message to this conversation")
       /\ req' = [req EXCEPT ![r].pc = "rejected", ![r].participant = "none",
                             ![r].trace = Step(r, "rejected")]

\* send_message without a payload: the destructuring of data in
\* handleSendMessage throws, and the handler's catch reports it.
ReceiveSendNoPayload(r, s) ==
  /\ FreeSlot(r)
  /\ connState[s] = "open"
  /\ wire' = SocketEmit("message_error", s, r, "Failed to send message")
  /\ req' = [req EXCEPT ![r] = [NoReq EXCEPT !.kind = "send", !.pc = "error",
                                             !.conn = s, !.payload = "missing",
                                             !.trace = <<"throw">>]]
  /\ UNCHANGED <<now, limVars, dbVars, sockVars>>

\* What the handler does with the participant row it looked up.
SendAuthorize(r, found) ==
  IF found
  THEN /\ req' = [req EXCEPT ![r].pc = "create", ![r].participant = "found",
                             ![r].trace = Step(r, "authorized")]
       /\ UNCHANGED wire
  ELSE /\ wire' = SocketEmit("message_error", req[r].conn, r,
                             "Not authorized to send message to this conversation")
       /\ req' = [req EXCEPT ![r].pc = "rejected", ![r].participant = "none",
                             ![r].trace = Step(r, "rejected")]

\* conversationParticipant.findFirst returns (or throws).
SendFindParticipant(r) ==
  /\ req[r].kind = "send" /\ req[r].pc = "findFirst"
  /\ \/ SendAuthorize(r, IsActiveParticipant(req[r].conv, connUser[req[r].conn]))
     \/ SendThrows(r)
  /\ UNCHANGED <<now, limVars, dbVars, sockVars>>

\* send_message with a payload that also names a sender: a field the
\* handler's destructuring does not read.
ReceiveSendAs(r, s, c, content, u) ==
  /\ FreeSlot(r)
  /\ connState[s] = "open"
  /\ req' = [req EXCEPT ![r] = [NoReq EXCEPT !.kind = "send", !.pc = "findFirst",
                                             !.conn = s, !.conv = c,
                                             !.content = content, !.senderId = u]]
  /\ UNCHANGED <<now, limVars, dbVars, sockVars, wire>>

\* Mutant: the row's sender is the one the payload names.
SendCreateMessageFromPayload(r) ==
  /\ req[r].kind = "send" /\ req[r].pc = "create"
  /\ \/ /\ messages' = Append(messages,
                         [id |-> Len(messages) + 1, conversationId |-> req[r].conv,
                          senderId |-> req[r].senderId,
                          content |-> req[r].content, createdAt |-> now])
        /\ req' = [req EXCEPT ![r].pc = "updateCall", ![r].message = Len(messages) + 1,
                              ![r].trace = Step(r, "create")]
        /\ UNCHANGED wire
     \/ SendThrows(r) /\ UNCHANGED messages
  /\ UNCHANGED <<now, limVars, userStatus, participant, convUpdatedAt, notifications,
                 receipts, sessions, sockVars>>

\* Mutant: the handler broadcasts right after the insert, without the
\* conversation update.
SendCreateMessageSkipsUpdate(r) ==
  /\ req[r].kind = "send" /\ req[r].pc = "create"
  /\ \/ /\ messages' = Append(messages,
                         [id |-> Len(messages) + 1, conversationId |-> req[r].conv,
                          senderId |-> connUser[req[r].conn],
                          content |-> req[r].content, createdAt |-> now])
        /\ req' = [req EXCEPT ![r].pc = "broadcast", ![r].message = Len(messages) + 1,
                              ![r].trace = Step(r, "create")]
        /\ UNCHANGED wire
     \/ SendThrows(r) /\ UNCHANGED messages
  /\ UNCHANGED <<now, limVars, userStatus, participant, convUpdatedAt, notifications,
                 receipts, sessions, sockVars>>

\* message.create commits (or throws): createdAt is the store's now().
SendCreateMessage(r) ==
  /\ req[r].kind = "send" /\ req[r].pc = "create"
  /\ \/ /\ messages' = Append(messages,
                         [id |-> Len(messages) + 1, conversationId |-> req[r].conv,
                          senderId |-> connUser[req[r].conn],
                          content |-> req[r].content, createdAt |-> now])
        /\ req' = [req EXCEPT ![r].pc = "updateCall", ![r].message = Len(messages) + 1,
                              ![r].trace = Step(r, "create")]
        /\ UNCHANGED wire
     \/ SendThrows(r) /\ UNCHANGED messages
  /\ UNCHANGED <<now, limVars, userStatus, participant, convUpdatedAt, notifications,
                 receipts, sessions, sockVars>>

\* The handler resumes and calls conversation.update with new Date().
SendUpdateCall(r) ==
  /\ req[r].kind = "send" /\ req[r].pc = "updateCall"
  /\ req' = [req EXCEPT ![r].pc = "update", ![r].ts = now]
  /\ UNCHANGED <<now, limVars, dbVars, sockVars, wire>>

\* conversation.update commits (or throws).
SendUpdateConversation(r) ==
  /\ req[r].kind = "send" /\ req[r].pc = "update"
  /\ \/ /\ convUpdatedAt' = [convUpdatedAt EXCEPT ![req[r].conv] = req[r].ts]
        /\ req' = [req EXCEPT ![r].pc = "broadcast", ![r].trace = Step(r, "update")]
        /\ UNCHANGED wire
     \/ SendThrows(r) /\ UNCHANGED convUpdatedAt
  /\ UNCHANGED <<now, limVars, userStatus, participant, messages, notifications,
                 receipts, sessions, sockVars>>

\* Mutant: socket.to(...) in place of io.to(...), which skips the sender.
SendBroadcastToOthers(r) ==
  /\ req[r].kind = "send" /\ req[r].pc = "broadcast"
  /\ wire' = Emit("new_message", ConvRoom(req[r].conv),
                  RoomExcept(ConvRoom(req[r].conv), req[r].conn), r, req[r].message)
  /\ req' = [req EXCEPT ![r].pc = "findOthers", ![r].trace = Step(r, "broadcast")]
  /\ UNCHANGED <<now, limVars, dbVars, sockVars>>

\* io.to(`conversation:${id}`).emit('new_message'), then findMany is issued.
SendBroadcast(r) ==
  /\ req[r].kind = "send" /\ req[r].pc = "broadcast"
  /\ wire' = Emit("new_message", ConvRoom(req[r].conv),
                  Members(ConvRoom(req[r].conv)), r, req[r].message)
  /\ req' = [req EXCEPT ![r].pc = "findOthers", ![r].trace = Step(r, "broadcast")]
  /\ UNCHANGED <<now, limVars, dbVars, sockVars>>

\* Mutant: only the participants who are connected are notified.
OtherParticipantsOnline(c, u) ==
  {v \in Users : v # u /\ IsActiveParticipant(c, v) /\ IsUserOnline(v)}

\* The other active participants of the conversation.
OtherParticipants(c, u) == {v \in Users : v # u /\ IsActiveParticipant(c, v)}

\* The for loop: on to the next participant, or the handler is done.
LoopPc(left) == IF left = {} THEN "done" ELSE "notify"

\* conversationParticipant.findMany returns (or throws).
SendFindOthers(r) ==
  /\ req[r].kind = "send" /\ req[r].pc = "findOthers"
  /\ \/ LET others == OtherParticipants(req[r].conv, connUser[req[r].conn])
        IN  /\ req' = [req EXCEPT ![r].pc = LoopPc(others), ![r].others = others,
                                  ![r].trace = Step(r, "findOthers")]
            /\ UNCHANGED wire
     \/ SendThrows(r)
  /\ UNCHANGED <<now, limVars, dbVars, sockVars>>

\* ---------------------------------------------------------- createNotification
Take(s, n) == SubSeq(s, 1, IF n < Len(s) THEN n ELSE Len(s))

\* Mutant: the marker is added from 100 characters on.
NotificationContentMarksAt100(s) ==
  Take(s, NotificationContentMax)
    \o (IF Len(s) >= NotificationContentMax THEN <<".", ".", ".">> ELSE <<>>)

\* content.substring(0, 100) + (content.length > 100 ? '...' : '')
NotificationContent(s) ==
  Take(s, NotificationContentMax)
    \o (IF Len(s) > NotificationContentMax THEN <<".", ".", ".">> ELSE <<>>)

\* `New message from ${socket.user?.username}`
NotificationTitle(s) == <<"New message from", connUser[s]>>

\* The notificationData handleSendMessage passes for request r.
NotificationData(r) ==
  [type |-> "NEW_MESSAGE", title |-> NotificationTitle(req[r].conn),
   content |-> NotificationContent(req[r].content),
   data |-> [conversationId |-> req[r].conv, messageId |-> req[r].message,
             senderId |-> connUser[req[r].conn]]]

\* Mutant: the duplicate check without its createdAt filter.
RecentDuplicateEver(u, d) ==
  \E i \in DOMAIN notifications :
    /\ notifications[i].userId = u
    /\ notifications[i].type = d.type
    /\ notifications[i].title = d.title
    /\ notifications[i].content = d.content

\* notification.findFirst({userId, type, title, content, createdAt: {gte}})
RecentDuplicate(u, d) ==
  \E i \in DOMAIN notifications :
    /\ notifications[i].userId = u
    /\ notifications[i].type = d.type
    /\ notifications[i].title = d.title
    /\ notifications[i].content = d.content
    /\ notifications[i].createdAt >= now - DedupWindowMs

\* Mutant: the duplicate that was found is delivered again.
NotifyFindDuplicateRedelivers(r) ==
  /\ req[r].kind = "send" /\ req[r].pc = "notify"
  /\ \/ \E u \in req[r].others :
          IF RecentDuplicate(u, NotificationData(r))
          THEN /\ req' = [req EXCEPT ![r].pc = LoopPc(req[r].others \ {u}),
                                     ![r].others = @ \ {u},
                                     ![r].trace = Step(r, "duplicate")]
               /\ wire' = Emit("new_notification", UserRoom(u), Members(UserRoom(u)),
                               r, Len(notifications))
          ELSE /\ req' = [req EXCEPT ![r].pc = "notifyCreate", ![r].target = u]
               /\ UNCHANGED wire
     \/ SendThrows(r)
  /\ UNCHANGED <<now, limVars, dbVars, sockVars>>

\* findFirst of createNotification returns (or throws) for some participant
\* of the loop; a recent duplicate ends the call.
NotifyFindDuplicate(r) ==
  /\ req[r].kind = "send" /\ req[r].pc = "notify"
  /\ \/ \E u \in req[r].others :
          /\ IF RecentDuplicate(u, NotificationData(r))
             THEN req' = [req EXCEPT ![r].pc = LoopPc(req[r].others \ {u}),
                                     ![r].others = @ \ {u},
                                     ![r].trace = Step(r, "duplicate")]
             ELSE req' = [req EXCEPT ![r].pc = "notifyCreate", ![r].target = u]
          /\ UNCHANGED wire
     \/ SendThrows(r)
  /\ UNCHANGED <<now, limVars, dbVars, sockVars>>

\* notification.create commits (or throws), new_notification goes to the
\* participant's personal room.
NotifyCreate(r) ==
  /\ req[r].kind = "send" /\ req[r].pc = "notifyCreate"
  /\ \/ LET u == req[r].target
            d == NotificationData(r)
        IN  /\ notifications' = Append(notifications,
                  [userId |-> u, type |-> d.type, title |-> d.title,
                   content |-> d.content, data |-> d.data, createdAt |-> now])
            /\ wire' = Emit("new_notification", UserRoom(u), Members(UserRoom(u)),
                            r, Len(notifications) + 1)
            /\ req' = [req EXCEPT ![r].pc = LoopPc(req[r].others \ {u}),
                                  ![r].others = @ \ {u}, ![r].target = 0,
                                  ![r].trace = Step(r, "notified")]
     \/ SendThrows(r) /\ UNCHANGED notifications
  /\ UNCHANGED <<now, limVars, userStatus, participant, messages, convUpdatedAt,
                 receipts, sessions, sockVars>>

SendStep(r) ==
  \/ SendFindParticipant(r)
  \/ SendCreateMessage(r)
  \/ SendUpdateCall(r)
  \/ SendUpdateConversation(r)
  \/ SendBroadcast(r)
  \/ SendFindOthers(r)
  \/ NotifyFindDuplicate(r)
  \/ NotifyCreate(r)

\* --------------------------------------------------------- mark_messages_read
ReadPayloads == {<<1>>, <<1, 2>>, <<2, 2>>}

\* socket.on('mark_messages_read'): handleMarkMessagesRead starts.
ReceiveRead(r, s, c, ids) ==
  /\ FreeSlot(r)
  /\ connState[s] = "open"
  /\ req' = [req EXCEPT ![r] = [NoReq EXCEPT !.kind = "read", !.pc = "findFirst",
                                             !.conn = s, !.conv = c, !.ids = ids]]
  /\ UNCHANGED <<now, limVars, dbVars, sockVars, wire>>

\* The catch of the mark_messages_read handler: the error is logged.
ReadThrows(r, why) ==
  req' = [req EXCEPT ![r].pc = "failed", ![r].error = why,
                     ![r].trace = Step(r, "throw")]

\* mark_messages_read with a payload that also names a user: a field the
\* handler's destructuring does not read.
ReceiveReadAs(r, s, c, ids, u) ==
  /\ FreeSlot(r)
  /\ connState[s] = "open"
  /\ req' = [req EXCEPT ![r] = [NoReq EXCEPT !.kind = "read", !.pc = "findFirst",
                                             !.conn = s, !.conv = c, !.ids = ids,
                                             !.senderId = u]]
  /\ UNCHANGED <<now, limVars, dbVars, sockVars, wire>>

\* mark_messages_read without a payload: the destructuring of data in
\* handleMarkMessagesRead throws, and the handler's catch logs it.
ReceiveReadNoPayload(r, s) ==
  /\ FreeSlot(r)
  /\ connState[s] = "open"
  /\ req' = [req EXCEPT ![r] = [NoReq EXCEPT !.kind = "read", !.pc = "failed",
                                             !.conn = s, !.payload = "missing",
                                             !.error = "TypeError",
                                             !.trace = <<"throw">>]]
  /\ UNCHANGED <<now, limVars, dbVars, sockVars, wire>>

\* Mutant: the handler goes on without its participant row.
ReadFindParticipantNoReturn(r) ==
  /\ req[r].kind = "read" /\ req[r].pc = "findFirst"
  /\ \/ IF IsActiveParticipant(req[r].conv, connUser[req[r].conn])
        THEN req' = [req EXCEPT ![r].pc = "createMany", ![r].participant = "found",
                                ![r].trace = Step(r, "authorized")]
        ELSE req' = [req EXCEPT ![r].pc = "createMany", ![r].participant = "none",
                                ![r].trace = Step(r, "return")]
     \/ ReadThrows(r, "store")
  /\ UNCHANGED <<now, limVars, dbVars, sockVars, wire>>

\* conversationParticipant.findFirst returns (or throws); no row, no more.
ReadFindParticipant(r) ==
  /\ req[r].kind = "read" /\ req[r].pc = "findFirst"
  /\ \/ IF IsActiveParticipant(req[r].conv, connUser[req[r].conn])
        THEN req' = [req EXCEPT ![r].pc = "createMany", ![r].participant = "found",
                                ![r].trace = Step(r, "authorized")]
        ELSE req' = [req EXCEPT ![r].pc = "returned", ![r].participant = "none",
                                ![r].trace = Step(r, "return")]
     \/ ReadThrows(r, "store")
  /\ UNCHANGED <<now, limVars, dbVars, sockVars, wire>>

\* The store's unique key of MessageReadReceipt: (messageId, userId).
ReceiptExists(rows, m, u) ==
  \E i \in DOMAIN rows : rows[i].messageId = m /\ rows[i].userId = u

\* createMany as the store runs it: one statement, row by row; a row that
\* breaks the unique key is skipped with skipDuplicates, and aborts the
\* statement (P2002) without it.
RECURSIVE CreateMany(_, _, _, _)
CreateMany(rows, data, skipDuplicates, before) ==
  IF data = <<>> THEN [rows |-> rows, error |-> ""]
  ELSE IF ReceiptExists(rows, Head(data).messageId, Head(data).userId)
       THEN IF skipDuplicates
            THEN CreateMany(rows, Tail(data), skipDuplicates, before)
            ELSE [rows |-> before, error |-> "P2002"]
       ELSE CreateMany(Append(rows, Head(data)), Tail(data), skipDuplicates, before)

\* messageIds.map(messageId => ({messageId, userId: socket.userId}))
ReadReceipts(ids, u) == [i \in DOMAIN ids |-> [messageId |-> ids[i], userId |-> u]]

\* Mutant: createMany without skipDuplicates.
CreateReadReceiptsNoSkip(rows, ids, u) ==
  CreateMany(rows, ReadReceipts(ids, u), FALSE, rows)

\* messageReadReceipt.createMany({data: readReceipts, skipDuplicates: true})
CreateReadReceipts(rows, ids, u) == CreateMany(rows, ReadReceipts(ids, u), TRUE, rows)

\* createMany commits (or throws).
ReadCreateMany(r) ==
  /\ req[r].kind = "read" /\ req[r].pc = "createMany"
  /\ \/ LET res == CreateReadReceipts(receipts, req[r].ids, connUser[req[r].conn])
        IN  IF res.error = ""
            THEN /\ receipts' = res.rows
                 /\ req' = [req EXCEPT ![r].pc = "updateCall",
                                       ![r].trace = Step(r, "createMany")]
            ELSE /\ ReadThrows(r, res.error)
                 /\ UNCHANGED receipts
     \/ ReadThrows(r, "store") /\ UNCHANGED receipts
  /\ UNCHANGED <<now, limVars, userStatus, participant, messages, convUpdatedAt,
                 notifications, sessions, sockVars, wire>>

\* The handler resumes and calls conversationParticipant.update with new Date().
ReadUpdateCall(r) ==
  /\ req[r].kind = "read" /\ req[r].pc = "updateCall"
  /\ req' = [req EXCEPT ![r].pc = "update", ![r].ts = now]
  /\ UNCHANGED <<now, limVars, dbVars, sockVars, wire>>

\* conversationParticipant.update commits (or throws); messages_read goes to
\* the rest of the conversation room.
ReadUpdateParticipant(r) ==
  /\ req[r].kind = "read" /\ req[r].pc = "update"
  /\ \/ LET s == req[r].conn
            k == <<req[r].conv, connUser[s]>>
        IN  /\ participant' = [participant EXCEPT ![k].lastReadAt = req[r].ts]
            /\ wire' = Emit("messages_read", ConvRoom(req[r].conv),
                            RoomExcept(ConvRoom(req[r].conv), s), r, req[r].ids)
            /\ req' = [req EXCEPT ![r].pc = "done", ![r].trace = Step(r, "update")]
     \/ ReadThrows(r, "store") /\ UNCHANGED <<participant, wire>>
  /\ UNCHANGED <<now, limVars, userStatus, messages, convUpdatedAt, notifications,
                 receipts, sessions, sockVars>>

ReadStep(r) ==
  \/ ReadFindParticipant(r)
  \/ ReadCreateMany(r)
  \/ ReadUpdateCall(r)
  \/ ReadUpdateParticipant(r)

\* --------------------------------------------------------------- refreshToken
\* The session manager. validateUserSession(token): the session row of the
\* token, when it has one that is active.
ValidateUserSession(t) == t \in DOMAIN sessions /\ sessions[t].isActive

\* revokeUserSession(token): the token's rows are no longer active.
RevokeUserSession(rows, t) ==
  [k \in DOMAIN rows |-> IF k = t THEN [rows[k] EXCEPT !.isActive = FALSE] ELSE rows[k]]

\* createUserSession(userId, refreshToken, req): a new active row, whose
\* token (a fresh jti) is one no row has.
CreateUserSession(rows, u) ==
  Append(rows, [userId |-> u, isActive |-> TRUE, expired |-> FALSE])

\* jwt.verify(refreshToken, JWT_REFRESH_SECRET) and the type check: the
\* tokens of the session table are refresh tokens the server signed, so what
\* can fail is the expiry.
JwtRefreshVerifies(t) == ~sessions[t].expired

\* A response: the status code, and the refresh token set in the cookies.
Respond(r, status, token) ==
  req' = [req EXCEPT ![r].pc = "done", ![r].status = status, ![r].issued = token,
                     ![r].trace = Step(r, "respond")]

\* catch (error) { next(error) }: the error handler answers 500.
RefreshThrows(r) ==
  req' = [req EXCEPT ![r].pc = "done", ![r].status = 500,
                     ![r].trace = Step(r, "throw")]

\* POST refresh with cookie t (0: no cookie): 401 without a token, or
\* validateUserSession is issued.
ReceiveRefresh(r, t) ==
  /\ FreeSlot(r)
  /\ req' = [req EXCEPT ![r] =
       IF t = 0
       THEN [NoReq EXCEPT !.kind = "refresh", !.pc = "done", !.status = 401,
                          !.trace = <<"respond">>]
       ELSE [NoReq EXCEPT !.kind = "refresh", !.pc = "validate", !.token = t]]
  /\ UNCHANGED <<now, limVars, dbVars, sockVars, wire>>

\* validateUserSession returns (or throws): 401 without a session;
\* otherwise the token is verified, and either the revoke of an invalid
\* token or user.findUnique is issued.
RefreshValidate(r) ==
  /\ req[r].kind = "refresh" /\ req[r].pc = "validate"
  /\ \/ IF ~ValidateUserSession(req[r].token)
        THEN Respond(r, 401, 0)
        ELSE IF ~JwtRefreshVerifies(req[r].token)
             THEN req' = [req EXCEPT ![r].pc = "revokeInvalid",
                                     ![r].trace = Step(r, "validated")]
             ELSE req' = [req EXCEPT ![r].pc = "findUser",
                                     ![r].target = sessions[req[r].token].userId,
                                     ![r].trace = Step(r, "validated")]
     \/ RefreshThrows(r)
  /\ UNCHANGED <<now, limVars, dbVars, sockVars, wire>>

\* user.findUnique returns (or throws): a revoke is issued, the one before
\* the 401 for a user who is gone or inactive, or the one of the rotation.
RefreshFindUser(r) ==
  /\ req[r].kind = "refresh" /\ req[r].pc = "findUser"
  /\ \/ IF UserIsActive(req[r].target)
        THEN req' = [req EXCEPT ![r].pc = "revoke", ![r].trace = Step(r, "user")]
        ELSE req' = [req EXCEPT ![r].pc = "revokeInvalid", ![r].trace = Step(r, "user")]
     \/ RefreshThrows(r)
  /\ UNCHANGED <<now, limVars, dbVars, sockVars, wire>>

\* revokeUserSession of a refused request commits (or throws); 401.
RefreshRevokeInvalid(r) ==
  /\ req[r].kind = "refresh" /\ req[r].pc = "revokeInvalid"
  /\ \/ /\ sessions' = RevokeUserSession(sessions, req[r].token)
        /\ Respond(r, 401, 0)
     \/ RefreshThrows(r) /\ UNCHANGED sessions
  /\ UNCHANGED <<now, limVars, userStatus, participant, messages, convUpdatedAt, notifications,
                 receipts, sockVars, wire>>

\* revokeUserSession of the rotation commits (or throws); generateTokenPair
\* is called.
RefreshRevoke(r) ==
  /\ req[r].kind = "refresh" /\ req[r].pc = "revoke"
  /\ \/ /\ sessions' = RevokeUserSession(sessions, req[r].token)
        /\ req' = [req EXCEPT ![r].pc = "generate", ![r].trace = Step(r, "revoke")]
     \/ RefreshThrows(r) /\ UNCHANGED sessions
  /\ UNCHANGED <<now, limVars, userStatus, participant, messages, convUpdatedAt, notifications,
                 receipts, sockVars, wire>>

\* createUserSession of generateTokenPair commits (or throws); the new pair
\* goes out in the cookies of a 200.
RefreshGenerate(r) ==
  /\ req[r].kind = "refresh" /\ req[r].pc = "generate"
  /\ \/ /\ sessions' = CreateUserSession(sessions, req[r].target)
        /\ Respond(r, 200, Len(sessions) + 1)
     \/ RefreshThrows(r) /\ UNCHANGED sessions
  /\ UNCHANGED <<now, limVars, userStatus, participant, messages, convUpdatedAt, notifications,
                 receipts, sockVars, wire>>

RefreshStep(r) ==
  \/ RefreshValidate(r)
  \/ RefreshFindUser(r)
  \/ RefreshRevokeInvalid(r)
  \/ RefreshRevoke(r)
  \/ RefreshGenerate(r)

\* ---------------------------------------------------------- RateLimiter
\* const key = user?.id || req.ip || 'anonymous': the id of the request's
\* user, for the users up to MaxKey, and key 0 for the address of a request
\* without one.
LimiterKeys == 0..MaxKey

\* No aiInsightsRateLimit call yet.
NoCall == [key |-> 0, allowed |-> TRUE, status |-> 0, resetTime |-> 0,
           remainingTime |-> 0, flip |-> FALSE]

\* Math.ceil(ms / 1000)
CeilSeconds(ms) == (ms + 999) \div 1000

\* this.requests.set(key, t)
SetRequest(map, key, t) ==
  [k \in DOMAIN map \cup {key} |-> IF k = key THEN t ELSE map[k]]

\* Mutant: a denied call restarts the window of its key.
IsAllowedSliding(key) ==
  LET known == key \in DOMAIN requests /\ requests[key] # 0
      lastRequest == IF known THEN requests[key] ELSE 0
      timeSinceLastRequest == now - lastRequest
  IN  IF ~known \/ timeSinceLastRequest >= WindowMs
      THEN [requests |-> SetRequest(requests, key, now), allowed |-> TRUE,
            resetTime |-> 0, remainingTime |-> 0]
      ELSE [requests |-> SetRequest(requests, key, now), allowed |-> FALSE,
            resetTime |-> lastRequest + WindowMs,
            remainingTime |-> CeilSeconds(WindowMs - timeSinceLastRequest)]

\* RateLimiter.isAllowed(key): the map after the call, and the answer. A
\* key without a timestamp, or with the timestamp 0, is allowed and stamped;
\* so is a key whose timestamp is windowMs old or older; any other is
\* denied, with the time its window ends.
IsAllowed(key) ==
  LET known == key \in DOMAIN requests /\ requests[key] # 0
      lastRequest == IF known THEN requests[key] ELSE 0
      timeSinceLastRequest == now - lastRequest
  IN  IF ~known \/ timeSinceLastRequest >= WindowMs
      THEN [requests |-> SetRequest(requests, key, now), allowed |-> TRUE,
            resetTime |-> 0, remainingTime |-> 0]
      ELSE [requests |-> requests, allowed |-> FALSE,
            resetTime |-> lastRequest + WindowMs,
            remainingTime |-> CeilSeconds(WindowMs - timeSinceLastRequest)]

\* aiInsightsRateLimit for a request of the user with id key (0: no user):
\* next() when allowed, 429 with the reset time when not.
AiInsightsRateLimit(key) ==
  LET result == IsAllowed(key)
  IN  /\ requests' = result.requests
      /\ allowedAt' = IF result.allowed
                      THEN [allowedAt EXCEPT ![key] = Append(@, now)]
                      ELSE allowedAt
      /\ lastCall' = [key |-> key, allowed |-> result.allowed,
                      status |-> IF result.allowed THEN 200 ELSE 429,
                      resetTime |-> result.resetTime,
                      remainingTime |-> result.remainingTime,
                      flip |-> ~lastCall.flip]
      /\ UNCHANGED <<now, dbVars, sockVars, wire, req>>

\* RateLimiter.cleanup(), run by the interval timer: the entries older than
\* the window are deleted.
Cleanup ==
  /\ requests' = [k \in {j \in DOMAIN requests : ~(now - requests[j] > WindowMs)}
                    |-> requests[k]]
  /\ UNCHANGED <<now, allowedAt, lastCall, dbVars, sockVars, wire, req>>

\* The delays between two events of the limiter: a millisecond, a window
\* less a millisecond, a window.
Delays == {1, WindowMs - 1, WindowMs}

\* Time passes, to within MaxTick ms after a multiple of the window, for
\* MaxWindows windows.
Elapse(d) ==
  /\ (now + d) % WindowMs <= MaxTick
  /\ now + d <= MaxWindows * WindowMs + MaxTick
  /\ now' = now + d
  /\ UNCHANGED <<limVars, dbVars, sockVars, wire, req>>

\* ------------------------------------------------------------------ init
InitStore ==
  /\ now = 0
  /\ userStatus = [u \in Users |-> "active"]
  /\ participant = [k \in ParticipantKeys |-> [isActive |-> TRUE, lastReadAt |-> 0]]
  /\ messages = <<>>
  /\ convUpdatedAt = [c \in Convs |-> 0]
  /\ notifications = <<>>
  /\ receipts = <<>>
  /\ sessions = <<>>

InitHandlers ==
  /\ wire = <<>>
  /\ req = [r \in Reqs |-> NoReq]
  /\ requests = <<>>
  /\ allowedAt = [k \in LimiterKeys |-> <<>>]
  /\ lastCall = NoCall

\* The service right after construction: nobody connected.
Init ==
  /\ InitStore
  /\ InitHandlers
  /\ userSockets = <<>>
  /\ connState = [s \in Conns |-> "new"]
  /\ connUser = [s \in Conns |-> 0]
  /\ handshake = [s \in Conns |-> NoToken]
  /\ rooms = [k \in RoomKeys |-> {}]

NextPresence ==
  \/ \E s \in Conns, u \in Users : Connect(s, u)
  \/ \E s \in Conns : Disconnect(s)

SpecPresence == Init /\ [][NextPresence]_vars

\* A running service: sockets 1 and 2 are two devices of user 1 and have
\* joined conversation 1, socket 3 is user 2's and has joined nothing; later
\* sockets are not connected, user 3 is offline.
InitialOwner(s) == IF s <= 2 THEN 1 ELSE 2
InitiallyOpen(s) == s <= 3
InitiallyJoined(s) == s <= 2

InitConnected ==
  /\ connState = [s \in Conns |-> IF InitiallyOpen(s) THEN "open" ELSE "new"]
  /\ connUser = [s \in Conns |-> IF InitiallyOpen(s) THEN InitialOwner(s) ELSE 0]
  /\ handshake = [s \in Conns |-> IF InitiallyOpen(s) THEN ValidToken(InitialOwner(s))
                                   ELSE NoToken]
  /\ userSockets = [u \in {InitialOwner(s) : s \in {t \in Conns : InitiallyOpen(t)}} |->
                      SelectSeq([i \in 1..NumConns |-> i],
                                LAMBDA s : InitiallyOpen(s) /\ InitialOwner(s) = u)]
  /\ rooms = [k \in RoomKeys |->
                {s \in Conns : /\ InitiallyOpen(s)
                               /\ \/ k = UserRoom(InitialOwner(s))
                                  \/ k = ConvRoom(1) /\ InitiallyJoined(s)}]

InitChat ==
  /\ InitStore
  /\ InitHandlers
  /\ InitConnected

NextJoin ==
  \/ \E r \in Reqs, s \in Conns, ids \in JoinPayloads : ReceiveJoin(r, s, ids)
  \/ \E r \in Reqs : JoinConversations(r)
  \/ \E r \in Reqs : JoinFails(r)

NextSend ==
  \/ \E r \in Reqs, s \in Conns, c \in Convs, content \in Contents :
        ReceiveSend(r, s, c, content)
  \/ \E r \in Reqs : SendStep(r)

NextRead ==
  \/ \E r \in Reqs, s \in Conns, c \in Convs, ids \in ReadPayloads :
        ReceiveRead(r, s, c, ids)
  \/ \E r \in Reqs : ReadStep(r)

NextAccount ==
  \/ \E u \in Users : DeleteAccountUser(u)
  \/ \E u \in Users : DeleteAccountParticipants(u)

\* The send_message handlers of a running service.
SpecSend == InitChat /\ [][NextSend]_vars

\* One send_message while the conversation's room changes under it.
NextGroup ==
  \/ \E s \in Conns, c \in Convs, content \in Contents : ReceiveSend(1, s, c, content)
  \/ SendStep(1)
  \/ \E s \in Conns, ids \in JoinPayloads : ReceiveJoin(2, s, ids)
  \/ JoinConversations(2)
  \/ JoinFails(2)
  \/ \E s \in Conns : Disconnect(s)

SpecGroup == InitChat /\ [][NextGroup]_vars

\* The join_conversations handlers, with sockets leaving and accounts deleted.
SpecJoin == InitChat /\ [][NextJoin \/ NextAccount \/ (\E s \in Conns : Disconnect(s))]_vars

\* The mark_messages_read handlers of a running service that holds one
\* message in each conversation.
InitRead ==
  /\ InitHandlers
  /\ InitConnected
  /\ now = 0
  /\ userStatus = [u \in Users |-> "active"]
  /\ participant = [k \in ParticipantKeys |-> [isActive |-> TRUE, lastReadAt |-> 0]]
  /\ messages = [i \in 1..2 |->
                   [id |-> i, conversationId |-> i, senderId |-> i,
                    content |-> <<"h", "i">>, createdAt |-> 0]]
  /\ convUpdatedAt = [c \in Convs |-> 0]
  /\ notifications = <<>>
  /\ receipts = <<>>
  /\ sessions = <<>>

SpecRead == InitRead /\ [][NextRead \/ Tick]_vars

Next ==
  \/ NextPresence
  \/ NextJoin
  \/ NextSend
  \/ NextRead
  \/ NextAccount
  \/ Tick

Spec == Init /\ [][Next]_vars

\* The handshakes of a starting service, with accounts being deleted, the
\* clock running, and the sockets that got in joining and leaving.
NextAuth ==
  \/ \E s \in Conns, t \in Tokens : MiddlewareStart(s, t)
  \/ \E s \in Conns : MiddlewareLookup(s)
  \/ \E u \in Users : DeleteAccountUser(u)
  \/ \E s \in Conns : Disconnect(s)
  \/ \E s \in Conns : ReceiveJoin(1, s, <<1, 2>>)
  \/ JoinConversations(1)
  \/ Tick

SpecAuth == Init /\ [][NextAuth]_vars

\* No handler is in flight.
Quiescent == \A q \in Reqs : req[q].pc \in {"idle", "done", "rejected", "error", "returned", "failed"}

\* The send_message handlers one after the other, all with the same text, so
\* that the calls of createNotification are sequential, while the clock runs.
NextNotify ==
  \/ \E r \in Reqs, s \in Conns, c \in Convs :
        Quiescent /\ ReceiveSend(r, s, c, <<"h", "i">>)
  \/ \E r \in Reqs : SendStep(r)
  \/ Tick
  \/ TickWindow

SpecNotify == InitChat /\ [][NextNotify]_vars

\* Sockets connecting and disconnecting around one send_message and one
\* join_conversations.
NextPersonal ==
  \/ NextPresence
  \/ \E s \in Conns, c \in Convs : ReceiveSend(1, s, c, <<"h", "i">>)
  \/ SendStep(1)
  \/ \E s \in Conns : ReceiveJoin(2, s, <<1, 2>>)
  \/ JoinConversations(2)

SpecPersonal == Init /\ [][NextPersonal]_vars

\* The mark_messages_read handlers, with events that carry no payload.
NextMalformed ==
  \/ NextRead
  \/ \E r \in Reqs, s \in Conns : ReceiveSendNoPayload(r, s)
  \/ \E r \in Reqs, s \in Conns : ReceiveReadNoPayload(r, s)

SpecMalformed == InitRead /\ [][NextMalformed]_vars

\* The send_message handlers, every persistence call of which returns: an
\* awaited call resolves or rejects, and the handler resumes.
SpecSendLive == SpecSend /\ \A r \in Reqs : WF_vars(SendStep(r))

\* A send_message and a mark_messages_read whose payloads name a user.
NextAs ==
  \/ \E s \in Conns, c \in Convs, u \in Users : ReceiveSendAs(1, s, c, <<"h", "i">>, u)
  \/ SendStep(1)
  \/ \E s \in Conns, c \in Convs, ids \in ReadPayloads, u \in Users :
        ReceiveReadAs(2, s, c, ids, u)
  \/ ReadStep(2)

SpecAs == InitRead /\ [][NextAs]_vars

\* Every user is logged in: user u holds refresh token u; the token of the
\* last user has expired while its session row is still active.
InitRefresh ==
  /\ InitHandlers
  /\ now = 0
  /\ userStatus = [u \in Users |-> "active"]
  /\ participant = [k \in ParticipantKeys |-> [isActive |-> TRUE, lastReadAt |-> 0]]
  /\ messages = <<>>
  /\ convUpdatedAt = [c \in Convs |-> 0]
  /\ notifications = <<>>
  /\ receipts = <<>>
  /\ sessions = [u \in Users |-> [userId |-> u, isActive |-> TRUE,
                                   expired |-> (u = NumUsers)]]
  /\ userSockets = <<>>
  /\ connState = [s \in Conns |-> "new"]
  /\ connUser = [s \in Conns |-> 0]
  /\ handshake = [s \in Conns |-> NoToken]
  /\ rooms = [k \in RoomKeys |-> {}]

\* The refresh requests, with any cookie, while accounts are deleted.
NextRefresh ==
  \/ \E r \in Reqs, t \in 0..(NumUsers + 1) : ReceiveRefresh(r, t)
  \/ \E r \in Reqs : RefreshStep(r)
  \/ \E u \in Users : DeleteAccountUser(u)
  \/ \E u \in Users : DeleteAccountSessions(u)

SpecRefresh == InitRefresh /\ [][NextRefresh]_vars

\* The limiter as constructed, at a time of day after the epoch.
InitLimiter ==
  /\ InitHandlers
  /\ now = 1
  /\ userStatus = [u \in Users |-> "active"]
  /\ participant = [k \in ParticipantKeys |-> [isActive |-> TRUE, lastReadAt |-> 0]]
  /\ messages = <<>>
  /\ convUpdatedAt = [c \in Convs |-> 0]
  /\ notifications = <<>>
  /\ receipts = <<>>
  /\ sessions = <<>>
  /\ userSockets = <<>>
  /\ connState = [s \in Conns |-> "new"]
  /\ connUser = [s \in Conns |-> 0]
  /\ handshake = [s \in Conns |-> NoToken]
  /\ rooms = [k \in RoomKeys |-> {}]

\* The AI-insights requests of every key, the cleanup timer and the clock.
NextLimiter ==
  \/ \E key \in LimiterKeys : AiInsightsRateLimit(key)
  \/ Cleanup
  \/ \E d \in Delays : Elapse(d)

SpecLimiter == InitLimiter /\ [][NextLimiter]_vars

\* One send_message while accounts are deleted.
NextSendDelete ==
  \/ \E s \in Conns, c \in Convs, content \in Contents : ReceiveSend(1, s, c, content)
  \/ SendStep(1)
  \/ NextAccount

SpecSendDelete == InitChat /\ [][NextSendDelete]_vars

\* The typing handlers, with a socket joining rooms.
NextTyping ==
  \/ \E s \in Conns, c \in Convs : TypingStart(s, c)
  \/ \E s \in Conns, c \in Convs : TypingStop(s, c)
  \/ \E s \in Conns, ids \in JoinPayloads : ReceiveJoin(1, s, ids)
  \/ JoinConversations(1)
  \/ JoinFails(1)

SpecTyping == InitChat /\ [][NextTyping]_vars

\* Message bodies around the notification's cut: of n characters, the i-th
\* being the (i * k mod 7)-th letter.
Letters == <<"a", "b", "c", "d", "e", "f", "g">>
Body(n, k) == [i \in 1..n |-> Letters[((i * k) % 7) + 1]]
BodyLengths ==
  {0, 1, NotificationContentMax - 1, NotificationContentMax,
   NotificationContentMax + 1, MaxBody}
Bodies == {Body(n, k) : n \in BodyLengths, k \in 1..2}

\* One send_message with a body of any of these lengths.
NextTruncate ==
  \/ \E s \in Conns, c \in Convs, body \in Bodies : ReceiveSend(1, s, c, body)
  \/ SendStep(1)

SpecTruncate == InitChat /\ [][NextTruncate]_vars
\* ================================================================= claims
SendRequests == {r \in Reqs : req[r].kind = "send"}
ReadRequests == {r \in Reqs : req[r].kind = "read"}
JoinRequests == {r \in Reqs : req[r].kind = "join"}

\* The emits handler r made of event ev, as indices of the wire.
EventsOf(r, ev) == {i \in DOMAIN wire : wire[i].req = r /\ wire[i].ev = ev}

\* Handler r has done the step.
Did(r, step) == \E i \in DOMAIN req[r].trace : req[r].trace[i] = step

\* How many times socket s got the new_message of request r.
Received(s, r) == Cardinality({i \in EventsOf(r, "new_message") : s \in wire[i].to})

\* C1: a send_message from a user who holds no active participant row for the
\* conversation when the handler looks it up is rejected: the handler stops
\* at the lookup, having created no Message row, left the conversation's
\* timestamp alone, broadcast no new_message and created no notification;
\* every row of the store comes from a handler that passed the lookup.
C1_UnauthorizedSendRejected ==
  /\ \A r \in SendRequests :
       req[r].participant = "none" =>
         /\ req[r].pc = "rejected"
         /\ req[r].message = 0
         /\ ~Did(r, "create") /\ ~Did(r, "update") /\ ~Did(r, "broadcast")
         /\ ~Did(r, "notified")
         /\ EventsOf(r, "new_message") = {}
         /\ EventsOf(r, "new_notification") = {}
  /\ Len(messages) = Cardinality({r \in SendRequests : Did(r, "create")})
  /\ \A i \in DOMAIN messages :
       \E r \in SendRequests : req[r].message = i /\ req[r].participant = "found"
  /\ \A i \in DOMAIN notifications :
       \E r \in SendRequests :
         /\ req[r].message = notifications[i].data.messageId
         /\ req[r].participant = "found"

\* C1 witness: user 1, who is no participant of conversation 2, has sent to it.
C1_Witness ==
  \E r \in SendRequests :
    /\ req[r].participant = "none"
    /\ req[r].conv = 2
    /\ connUser[req[r].conn] = 1
    /\ EventsOf(r, "message_error") # {}

\* The duplicate key of createNotification.
SameNotification(a, b) ==
  /\ a.userId = b.userId
  /\ a.type = b.type
  /\ a.title = b.title
  /\ a.content = b.content

\* The socket whose handler created the notification row.
NotificationSocket(n) ==
  CHOOSE s \in Conns :
    \E r \in SendRequests : req[r].message = n.data.messageId /\ req[r].conn = s

\* C2: no two Notification rows with identical (userId, type, title, content),
\* created by the handlers of different connections, have creation times less
\* than 5 minutes apart.
C2_NoDuplicateWithinWindow ==
  \A i, j \in DOMAIN notifications :
    (/\ i < j
     /\ SameNotification(notifications[i], notifications[j])
     /\ NotificationSocket(notifications[i]) # NotificationSocket(notifications[j]))
      => notifications[j].createdAt - notifications[i].createdAt >= DedupWindowMs

\* C3: the new_message of a send goes, once, to exactly the connected sockets
\* of the conversation's room at the moment of the broadcast (the sender's
\* socket and the sender's other devices included), nothing else delivers
\* it, and no socket ever holds it twice.
C3_BroadcastReachesGroupOnce ==
  [][\A r \in Reqs :
       /\ \A s \in Conns : Received(s, r)' <= 1
       /\ (req[r].kind = "send" /\ req[r].pc = "broadcast" /\ req'[r].pc # "broadcast")
            => \A s \in Conns :
                 Received(s, r)' =
                   IF s \in rooms[ConvRoom(req[r].conv)] /\ connState[s] = "open"
                   THEN 1 ELSE 0
       /\ ~(req[r].kind = "send" /\ req[r].pc = "broadcast")
            => \A s \in Conns : Received(s, r)' = Received(s, r)]_vars

\* C3 witness: a new_message has reached the sender's socket and the sender's
\* other device, and not a connected socket outside the room.
C3_Witness ==
  \E r \in SendRequests : \E s1, s2 \in Conns :
    /\ Received(req[r].conn, r) = 1
    /\ s1 # req[r].conn /\ connUser[s1] = connUser[req[r].conn]
    /\ Received(s1, r) = 1
    /\ connState[s2] = "open" /\ Received(s2, r) = 0

\* The new_message emits of different sockets' handlers in one conversation.
BroadcastPairs ==
  {p \in (DOMAIN wire) \X (DOMAIN wire) :
     /\ p[1] < p[2]
     /\ wire[p[1]].ev = "new_message" /\ wire[p[2]].ev = "new_message"
     /\ wire[p[1]].room = wire[p[2]].room
     /\ req[wire[p[1]].req].conn # req[wire[p[2]].req].conn}

\* C4 as claimed: within one conversation the new_message events of handlers
\* on different connections are broadcast in the order in which their Message
\* rows were committed (the order of the row ids).
C4_BroadcastOrderIsCommitOrder ==
  \A p \in BroadcastPairs : wire[p[1]].data < wire[p[2]].data

\* C4 as amended: a new_message is broadcast only after its own Message row
\* and the conversation's timestamp update were committed, and it carries
\* that row's id and conversation.
C4_BroadcastAfterOwnCommit ==
  \A i \in DOMAIN wire :
    wire[i].ev = "new_message" =>
      LET r == wire[i].req
      IN  /\ wire[i].data \in DOMAIN messages
          /\ wire[i].data = req[r].message
          /\ messages[wire[i].data].conversationId = req[r].conv
          /\ wire[i].room = ConvRoom(req[r].conv)
          /\ Did(r, "create") /\ Did(r, "update")

\* C4 witness: two handlers on different connections have broadcast to one
\* conversation in the order opposite to their commits.
C4_Witness ==
  \E p \in BroadcastPairs : wire[p[1]].data > wire[p[2]].data

\* The handler's lookup, insert or timestamp update threw.
FailedBeforeBroadcast(r) ==
  /\ req[r].kind = "send"
  /\ Did(r, "throw")
  /\ ~Did(r, "broadcast")

\* C5: when the participant lookup, the Message insert or the conversation
\* update of a send_message throws, the handler emits one message_error, to
\* the sending socket alone, and nothing else: no new_message for the request.
C5_FailureReportedToSenderOnly ==
  \A r \in Reqs :
    FailedBeforeBroadcast(r) =>
      /\ Cardinality(EventsOf(r, "message_error")) = 1
      /\ \A i \in DOMAIN wire :
           wire[i].req = r =>
             /\ wire[i].ev = "message_error"
             /\ wire[i].room = <<"socket", req[r].conn>>
             /\ wire[i].to \subseteq {req[r].conn}

\* C5 witness: the conversation update threw after the Message was inserted.
C5_Witness ==
  \E r \in SendRequests :
    /\ req[r].trace = <<"authorized", "create", "throw">>
    /\ EventsOf(r, "message_error") # {}

\* createNotification threw for a participant of request r's loop.
NotificationFailed(r) ==
  /\ req[r].kind = "send"
  /\ \E i \in DOMAIN req[r].trace :
       /\ req[r].trace[i] = "throw"
       /\ i > 1
       /\ req[r].trace[i - 1] \in {"findOthers", "duplicate", "notified"}

\* C6: a failure while creating the notification of a recipient is swallowed:
\* no error event goes to the sender, and the remaining recipients are still
\* served (the handler does not end with participants left over).
C6_NotificationFailureSwallowed ==
  \A r \in Reqs :
    NotificationFailed(r) =>
      /\ EventsOf(r, "message_error") = {}
      /\ (req[r].pc = "error" => req[r].others \ {req[r].target} = {})

\* The read handlers in flight run on sockets of their own.
OnDifferentConnections ==
  \A r1, r2 \in ReadRequests : r1 # r2 => req[r1].conn # req[r2].conn

\* C7: no step lowers the lastReadAt of a ConversationParticipant row, the
\* mark_messages_read handlers running on different connections.
C7_LastReadAtNeverDecreases ==
  [][OnDifferentConnections =>
       \A k \in DOMAIN participant :
         participant'[k].lastReadAt >= participant[k].lastReadAt]_vars

\* The (messageId, userId) pairs that completed createMany calls asked for.
MarkedPairs ==
  UNION {{<<req[r].ids[i], connUser[req[r].conn]>> : i \in DOMAIN req[r].ids} :
           r \in {q \in ReadRequests : Did(q, "createMany")}}

\* C8: there is at most one MessageReadReceipt row per (messageId, userId),
\* the rows are exactly the pairs that createMany was called with, so a
\* repeated call adds no row, and no call fails on the unique key.
C8_OneReceiptPerPair ==
  /\ \A i, j \in DOMAIN receipts :
       (receipts[i].messageId = receipts[j].messageId
          /\ receipts[i].userId = receipts[j].userId) => i = j
  /\ {<<receipts[i].messageId, receipts[i].userId>> : i \in DOMAIN receipts}
       = MarkedPairs
  /\ \A r \in ReadRequests : req[r].error # "P2002"

\* C8 witness: the same mark_messages_read has run twice and left one row
\* per pair.
C8_Witness ==
  \E r1, r2 \in ReadRequests :
    /\ r1 # r2
    /\ connUser[req[r1].conn] = connUser[req[r2].conn]
    /\ req[r1].conv = req[r2].conv
    /\ req[r1].ids = req[r2].ids
    /\ req[r1].pc = "done" /\ req[r2].pc = "done"
    /\ Len(receipts) = Cardinality(Range(req[r1].ids))

\* C9: isUserOnline(u) is true exactly when a socket of u was registered and
\* has not disconnected.
C9_OnlineIffLiveConnection ==
  \A u \in Users :
    IsUserOnline(u) <=> \E s \in Conns : connState[s] = "open" /\ connUser[s] = u

\* C9 witness: one socket of a user has disconnected while another one,
\* opened before, is still connected, and the user is online.
C9_Witness ==
  \E u \in Users : \E s1, s2 \in Conns :
    /\ connUser[s1] = u /\ connState[s1] = "closed"
    /\ connUser[s2] = u /\ connState[s2] = "open"
    /\ IsUserOnline(u)

\* C10: a join_conversations handler that gets its rows replies with exactly
\* the requested ids for which its user holds an active participant row, puts
\* the socket into exactly those conversation rooms, and emits nothing else:
\* no handler of the event ever emits an error.
C10_JoinsExactlyAuthorized ==
  [][\A r \in Reqs :
       /\ (req[r].kind = "join" /\ req[r].pc = "findMany" /\ req'[r].pc = "done") =>
            LET s == req[r].conn
                allowed == {c \in Range(req[r].ids) :
                              /\ <<c, connUser[s]>> \in DOMAIN participant
                              /\ participant[<<c, connUser[s]>>].isActive}
            IN  /\ Len(wire') = Len(wire) + 1
                /\ wire'[Len(wire')].ev = "conversations_joined"
                /\ wire'[Len(wire')].data = allowed
                /\ wire'[Len(wire')].room = <<"socket", s>>
                /\ \A k \in RoomKeys :
                     rooms'[k] = IF \E c \in allowed : k = ConvRoom(c)
                                 THEN rooms[k] \cup {s} ELSE rooms[k]
       /\ req'[r].kind = "join" =>
            \A i \in DOMAIN wire' :
              wire'[i].req = r => wire'[i].ev = "conversations_joined"]_vars

\* C10 witness: user 1 asked for conversations 1 and 2 and joined 1 alone.
C10_Witness ==
  \E r \in JoinRequests :
    /\ req[r].pc = "done"
    /\ req[r].ids = <<1, 2>>
    /\ connUser[req[r].conn] = 1
    /\ \E i \in EventsOf(r, "conversations_joined") : wire[i].data = {1}
    /\ req[r].conn \notin rooms[ConvRoom(2)]

\* C11: a socket whose credential check fails (no token, a signature that is
\* not the server's, an expired token, no User row for the token's id, or a
\* User whose status is not active when it is looked up) is refused, and a
\* refused socket was never connected: it has no user attached, is in no
\* entry of the session directory and in no room, no handler ever ran for
\* one of its events and no event was ever delivered to it.
C11_RefusedBeforeAnyHandler ==
  [][\A s \in Conns :
       /\ (/\ connState[s] = "new" /\ connState'[s] # "new"
           /\ \/ ~handshake'[s].present
              \/ ~handshake'[s].signed
              \/ handshake'[s].exp <= now)
            => connState'[s] = "refused"
       /\ (/\ connState[s] = "verifying" /\ connState'[s] # "verifying"
           /\ \/ handshake[s].userId \notin Users
              \/ userStatus[handshake[s].userId] # "active")
            => connState'[s] = "refused"
       /\ connState'[s] = "refused" =>
            /\ connState[s] \in {"new", "verifying", "refused"}
            /\ connUser'[s] = 0
            /\ \A u \in DOMAIN userSockets' : s \notin Range(userSockets'[u])
            /\ \A k \in RoomKeys : s \notin rooms'[k]
            /\ \A r \in Reqs : req'[r].conn # s
            /\ \A i \in DOMAIN wire' : s \notin wire'[i].to]_vars

\* C11 witness: a socket with a good token of a user whose account was
\* deleted has been refused, while another socket got in and joined a room.
C11_Witness ==
  \E s, t \in Conns :
    /\ connState[s] = "refused"
    /\ handshake[s].present /\ handshake[s].signed /\ handshake[s].exp > now
    /\ handshake[s].userId \in Users
    /\ userStatus[handshake[s].userId] = "inactive"
    /\ connState[t] = "open"
    /\ \E c \in Convs : t \in rooms[ConvRoom(c)]

\* The rows createNotification compares with: same user, type, title, content.
SameKeyRows(u, d) ==
  {i \in DOMAIN notifications :
     SameNotification(notifications[i], [userId |-> u, type |-> d.type,
                                         title |-> d.title, content |-> d.content])}

\* C12: with the calls of createNotification made one after the other, a call
\* that comes at most 5 minutes after the creation of a stored row with the
\* same (userId, type, title, content) stores nothing, a call that comes after
\* the 5 minutes goes on to insert and its insert adds one row created now;
\* so two rows with the same key are always more than 5 minutes apart.
C12_SequentialDedup ==
  [][/\ \A r \in Reqs :
          /\ (/\ req[r].kind = "send" /\ req[r].pc = "notify"
              /\ req'[r] # req[r] /\ req'[r].pc # "error") =>
               \E u \in req[r].others :
                 /\ req'[r].target = u \/ req'[r].others = req[r].others \ {u}
                 /\ IF \E i \in SameKeyRows(u, NotificationData(r)) :
                         now - notifications[i].createdAt <= DedupWindowMs
                    THEN /\ notifications' = notifications
                         /\ req'[r].others = req[r].others \ {u}
                         /\ req'[r].pc # "notifyCreate"
                    ELSE /\ req'[r].pc = "notifyCreate"
                         /\ req'[r].target = u
          /\ (/\ req[r].kind = "send" /\ req[r].pc = "notifyCreate"
              /\ req'[r] # req[r] /\ req'[r].pc # "error") =>
               /\ Len(notifications') = Len(notifications) + 1
               /\ SubSeq(notifications', 1, Len(notifications)) = notifications
               /\ LET d == NotificationData(r)
                  IN  SameNotification(notifications'[Len(notifications')],
                                       [userId |-> req[r].target, type |-> d.type,
                                        title |-> d.title, content |-> d.content])
               /\ notifications'[Len(notifications')].createdAt = now
     /\ \A i, j \in DOMAIN notifications' :
          (i < j /\ SameNotification(notifications'[i], notifications'[j])) =>
            notifications'[j].createdAt - notifications'[i].createdAt > DedupWindowMs]_vars

\* C12 witness: a second send of the same text found the row of one recipient
\* still in its window, and stored a second row for another recipient whose
\* first row was older than 5 minutes.
C12_Witness ==
  \E r \in SendRequests :
    /\ req[r].pc = "done"
    /\ Did(r, "duplicate") /\ Did(r, "notified")
    /\ \E i, j \in DOMAIN notifications :
         /\ i < j
         /\ SameNotification(notifications[i], notifications[j])
         /\ notifications[j].data.messageId = req[r].message

\* C13: when a send_message handler has run to its end without a failure,
\* every user other than the sender who holds an active participant row of
\* the conversation has a stored NEW_MESSAGE notification with the title and
\* content of this message (the row made for it, or the duplicate that was
\* found), connected or not, and no notification of the message is the
\* sender's.
C13_EveryOtherParticipantNotified ==
  \A r \in SendRequests :
    LET sender == connUser[req[r].conn]
    IN  /\ req[r].pc = "done" =>
             \A v \in Users \ {sender} :
               (/\ <<req[r].conv, v>> \in DOMAIN participant
                /\ participant[<<req[r].conv, v>>].isActive)
                 => \E i \in DOMAIN notifications :
                      /\ notifications[i].userId = v
                      /\ notifications[i].type = "NEW_MESSAGE"
                      /\ notifications[i].title = <<"New message from", sender>>
                      /\ notifications[i].content = req[r].content
        /\ \A i \in DOMAIN notifications :
             notifications[i].data.messageId = req[r].message
               => notifications[i].userId # sender

\* C13 witness: a send to conversation 1 is done, and both the connected
\* user 2 and the offline user 3 hold the notification row made for it.
C13_Witness ==
  \E r \in SendRequests :
    /\ req[r].pc = "done"
    /\ ~IsUserOnline(3) /\ IsUserOnline(2)
    /\ \A v \in {2, 3} :
         \E i \in DOMAIN notifications :
           /\ notifications[i].userId = v
           /\ notifications[i].data.messageId = req[r].message

\* The body of the message a notification row was made for.
BodyOf(n) == messages[n.data.messageId].content

\* C14: the content of the notification of a message with body s is s when s
\* has at most 100 characters, and otherwise has 103 characters: the first
\* 100 of s, in order, and then three dots.
C14_ContentTruncatedAt100 ==
  \A i \in DOMAIN notifications :
    LET s == BodyOf(notifications[i])
        c == notifications[i].content
    IN  IF Len(s) <= 100
        THEN c = s
        ELSE /\ Len(c) = 103
             /\ \A j \in 1..100 : c[j] = s[j]
             /\ \A j \in 101..103 : c[j] = "."

\* C14 witness: a row exists for a body of more than 101 characters, cut
\* to 100 and marked.
C14_Witness ==
  \E i \in DOMAIN notifications :
    /\ Len(BodyOf(notifications[i])) > 101
    /\ Len(notifications[i].content) = 103
    /\ notifications[i].content # BodyOf(notifications[i])

\* C15: an event that names a conversation acts on it only for a user with
\* an active participant row of it: a typing event that reached a socket of
\* the conversation's room, a Message row, a read receipt of a message and a
\* messages_read event all come from such a user.
C15_OnlyParticipantsAct ==
  /\ \A i \in TypingEvents :
       wire[i].to # {} =>
         /\ <<wire[i].data.conversationId, wire[i].data.userId>> \in DOMAIN participant
         /\ participant[<<wire[i].data.conversationId, wire[i].data.userId>>].isActive
  /\ \A i \in DOMAIN messages :
       <<messages[i].conversationId, messages[i].senderId>> \in DOMAIN participant
  /\ \A i \in DOMAIN wire :
       wire[i].ev = "messages_read" =>
         \E c \in Convs :
           /\ wire[i].room = ConvRoom(c)
           /\ <<c, connUser[req[wire[i].req].conn]>> \in DOMAIN participant

\* C16: in the step that inserts a Message row, the row's sender holds an
\* active participant row of the row's conversation.
C16_SenderActiveAtInsert ==
  [][Len(messages') > Len(messages) =>
       LET m == messages'[Len(messages')]
           k == <<m.conversationId, m.senderId>>
       IN  k \in DOMAIN participant /\ participant[k].isActive]_vars

\* C17: a connected socket is in the personal room of its own user, whatever
\* conversation rooms it is in, and in the personal room of no other user;
\* and a new_notification for user u goes to exactly the connected sockets
\* of u.
C17_PersonalRoomIsOwnUsers ==
  [][/\ \A s \in Conns :
          connState'[s] = "open" =>
            \A u \in Users : s \in rooms'[UserRoom(u)] <=> u = connUser'[s]
     /\ (Len(wire') > Len(wire) /\ wire'[Len(wire')].ev = "new_notification") =>
          LET e == wire'[Len(wire')]
              u == notifications'[e.data].userId
          IN  e.to = {s \in Conns : connState[s] = "open" /\ connUser[s] = u}]_vars

\* C17 witness: a new_notification reached both sockets of its user, neither
\* of them in a conversation room, and not a third, connected socket.
C17_Witness ==
  \E i \in DOMAIN wire : \E s1, s2, s3 \in Conns :
    /\ wire[i].ev = "new_notification"
    /\ s1 # s2 /\ {s1, s2} \subseteq wire[i].to
    /\ \A c \in Convs : s1 \notin rooms[ConvRoom(c)] /\ s2 \notin rooms[ConvRoom(c)]
    /\ connState[s3] = "open" /\ s3 \notin wire[i].to

\* The connected sockets of user u.
LiveConnections(u) == {s \in Conns : connState[s] = "open" /\ connUser[s] = u}

\* C18: no entry of the session directory is an empty list: the entry of a
\* user lists that user's connected sockets, each once, and getOnlineUsers
\* is the set of users with a connected socket.
C18_NoEmptyEntries ==
  /\ \A u \in DOMAIN userSockets :
       /\ Len(userSockets[u]) > 0
       /\ Range(userSockets[u]) = LiveConnections(u)
       /\ Len(userSockets[u]) = Cardinality(LiveConnections(u))
  /\ GetOnlineUsers = {u \in Users : LiveConnections(u) # {}}

\* C18 witness: the last socket of a user has disconnected, and the
\* directory holds the one other user who is still connected.
C18_Witness ==
  \E u, v \in Users :
    /\ u # v
    /\ LiveConnections(u) = {}
    /\ \E s \in Conns : connUser[s] = u /\ connState[s] = "closed"
    /\ LiveConnections(v) # {}
    /\ GetOnlineUsers = {v}

\* How many times the step is in the trace of handler r.
Times(r, step) == Cardinality({i \in DOMAIN req[r].trace : req[r].trace[i] = step})

\* C19: the step in which createNotification finds a row of the same user,
\* type, title and content that is at most 5 minutes old changes nothing: the
\* Notification rows and every other row stay as they are and nothing is
\* emitted; the rows and the new_notification events of a handler are the
\* ones of the calls that found no duplicate.
C19_DuplicateChangesNothing ==
  [][\A r \in Reqs :
       /\ Times(r, "duplicate")' > Times(r, "duplicate") =>
            /\ \E u \in req[r].others \ req'[r].others :
                 \E i \in SameKeyRows(u, NotificationData(r)) :
                   now - notifications[i].createdAt <= DedupWindowMs
            /\ notifications' = notifications
            /\ wire' = wire
            /\ UNCHANGED dbVars
       /\ req'[r].kind = "send" =>
            /\ Cardinality(EventsOf(r, "new_notification"))' = Times(r, "notified")'
            /\ req'[r].message # 0 =>
                 Cardinality({i \in DOMAIN notifications' :
                                notifications'[i].data.messageId = req'[r].message})
                   = Times(r, "notified")']_vars

\* C19 witness: a second send of the same text is done, found a duplicate
\* for both recipients, and the store holds the two rows of the first send.
C19_Witness ==
  \E r \in SendRequests :
    /\ req[r].pc = "done"
    /\ Times(r, "duplicate") = 2 /\ Times(r, "notified") = 0
    /\ EventsOf(r, "new_notification") = {}
    /\ Len(notifications) = 2

\* The mark_messages_read handlers whose user held an active participant row
\* of the named conversation at the lookup.
AuthorizedReads == {r \in ReadRequests : req[r].participant = "found"}

\* C20: a mark_messages_read whose user holds no active participant row of
\* the named conversation ends at the lookup and has done nothing: it
\* created no receipt, set no lastReadAt and emitted no event, error events
\* included; every receipt, every lastReadAt that was set and every
\* messages_read event comes from a handler that found its row.
C20_UnauthorizedReadIsSilent ==
  /\ \A r \in ReadRequests :
       req[r].participant = "none" =>
         /\ req[r].pc = "returned"
         /\ req[r].trace = <<"return">>
         /\ \A i \in DOMAIN wire : wire[i].req # r
  /\ \A i \in DOMAIN receipts :
       \E r \in AuthorizedReads :
         /\ receipts[i].userId = connUser[req[r].conn]
         /\ receipts[i].messageId \in Range(req[r].ids)
  /\ \A k \in DOMAIN participant :
       participant[k].lastReadAt # 0 =>
         \E r \in AuthorizedReads : k = <<req[r].conv, connUser[req[r].conn]>>
  /\ \A i \in DOMAIN wire :
       wire[i].ev \in {"messages_read", "message_error"} => wire[i].req \in AuthorizedReads

\* C20 witness: user 1, who has no participant row of conversation 2, asked
\* to mark its messages read, and the handler has returned.
C20_Witness ==
  \E r \in ReadRequests :
    /\ req[r].pc = "returned"
    /\ req[r].conv = 2
    /\ connUser[req[r].conn] = 1
    /\ <<2, 1>> \notin DOMAIN participant
    /\ receipts = <<>> /\ wire = <<>>

\* C21: a handler whose event came without its payload has sent an error
\* event to the socket of the event and to no other, and has changed no row.
C21_MalformedGetsErrorEvent ==
  \A r \in Reqs :
    req[r].payload = "missing" =>
      /\ \E i \in DOMAIN wire :
           /\ wire[i].req = r
           /\ wire[i].room = <<"socket", req[r].conn>>
      /\ \A i \in DOMAIN wire : wire[i].req = r => wire[i].to \subseteq {req[r].conn}
      /\ ~Did(r, "create") /\ ~Did(r, "createMany") /\ ~Did(r, "update")

\* The steps of a send_message that goes through, in order.
SendOrder == <<"authorized", "create", "update", "broadcast", "findOthers">>

\* The steps of handler r are in the order of the state machine: rejected
\* alone, or the lookup, the insert, the timestamp update, the broadcast, the
\* participants query and then the notifications, a failure ending it.
InSendOrder(r) ==
  LET t == req[r].trace
  IN  /\ \A i \in DOMAIN t :
           /\ t[i] = "throw" => i = Len(t)
           /\ t[i] = "rejected" => Len(t) = 1
           /\ (i <= Len(SendOrder) /\ t[i] \notin {"throw", "rejected"}) => t[i] = SendOrder[i]
           /\ (i > Len(SendOrder) /\ t[i] # "throw") => t[i] \in {"duplicate", "notified"}
      /\ req[r].pc = "done" => (Len(t) >= Len(SendOrder) /\ ~Did(r, "throw"))
      /\ req[r].pc = "rejected" => t = <<"rejected">>
      /\ req[r].pc = "error" => (Did(r, "throw") /\ EventsOf(r, "message_error") # {})

\* C22: a send_message takes its steps in the order lookup, Message insert,
\* conversation update, new_message broadcast, notifications; every
\* notification row of a message was stored after the broadcast of that
\* message; and with every persistence call returning, every request ends
\* as done, rejected, or failed with a message_error to the sender.
C22_SendStateMachine ==
  /\ [](\A r \in SendRequests : InSendOrder(r))
  /\ [](\A i \in DOMAIN notifications :
          \E j \in DOMAIN wire :
            wire[j].ev = "new_message" /\ wire[j].data = notifications[i].data.messageId)
  /\ \A r \in Reqs :
       (req[r].kind = "send") ~> (req[r].pc \in {"done", "rejected", "error"})

\* C22 witness: a send went through every step and notified two recipients.
C22_Witness ==
  \E r \in SendRequests :
    /\ req[r].pc = "done"
    /\ req[r].trace = SendOrder \o <<"notified", "notified">>

\* The Message rows of conversation c, as indices.
MessagesOf(c) == {i \in DOMAIN messages : messages[i].conversationId = c}

\* The most recent of them.
LastMessage(c) == CHOOSE i \in MessagesOf(c) : \A j \in MessagesOf(c) : j <= i

\* C23: when every send_message so far has run to its end, the update
\* timestamp of a conversation with messages is the creation time of its
\* most recent Message row.
C23_UpdatedAtIsLastCreatedAt ==
  (\A r \in Reqs : req[r].pc \in {"idle", "done"}) =>
    \A c \in Convs :
      MessagesOf(c) # {} => convUpdatedAt[c] = messages[LastMessage(c)].createdAt

\* The ids the directory dir holds for user u.
EntryOf(dir, u) == IF u \in DOMAIN dir THEN dir[u] ELSE <<>>

\* C24: a connect or disconnect of socket s leaves the directory as it was
\* but for s: the entry of every other user is the same, present or absent,
\* and the other ids of the same user are the same, in the same order.
C24_OnlyOwnIdChanges ==
  [][\A s \in Conns :
       connState'[s] # connState[s] =>
         /\ \A u \in Users :
              RemoveAll(EntryOf(userSockets', u), s) = RemoveAll(EntryOf(userSockets, u), s)
         /\ \A u \in Users \ {connUser'[s]} :
              /\ u \in DOMAIN userSockets' <=> u \in DOMAIN userSockets
              /\ EntryOf(userSockets', u) = EntryOf(userSockets, u)]_vars

\* C24 witness: of a user's two sockets one has disconnected and the other
\* is still listed, next to the entry of another user.
C24_Witness ==
  \E u, v \in Users : \E s1, s2 \in Conns :
    /\ u # v
    /\ connUser[s1] = u /\ connState[s1] = "closed"
    /\ connUser[s2] = u /\ EntryOf(userSockets, u) = <<s2>>
    /\ v \in DOMAIN userSockets

\* C25: the sender of the Message row a handler inserted, and the user of
\* every read receipt, is the user attached to the socket of the event,
\* whatever user the payload names.
C25_RowsAttributedToSocketUser ==
  /\ \A r \in SendRequests :
       req[r].message # 0 => messages[req[r].message].senderId = connUser[req[r].conn]
  /\ \A i \in DOMAIN receipts :
       \E r \in ReadRequests :
         /\ Did(r, "createMany")
         /\ receipts[i].messageId \in Range(req[r].ids)
         /\ receipts[i].userId = connUser[req[r].conn]
  /\ \A s \in Conns :
       connState[s] = "open" => connUser[s] = handshake[s].userId

\* C25 witness: a send and a read whose payloads named another user have
\* stored their rows.
C25_Witness ==
  \E r1 \in SendRequests, r2 \in ReadRequests :
    /\ req[r1].senderId # connUser[req[r1].conn] /\ req[r1].message # 0
    /\ req[r2].senderId # connUser[req[r2].conn] /\ Did(r2, "createMany")
    /\ receipts # <<>>

\* C26: a send_message that ended with a message_error to its sender has
\* created no Message row and broadcast no new_message.
C26_ErrorMeansNothingStored ==
  \A r \in SendRequests :
    EventsOf(r, "message_error") # {} =>
      /\ req[r].message = 0
      /\ ~Did(r, "create")
      /\ EventsOf(r, "new_message") = {}

\* C27: in the step that broadcasts a new_message of conversation c, every
\* socket it is delivered to belongs to a user who holds an active
\* participant row of c.
C27_ReceiversAreActiveParticipants ==
  [][(Len(wire') > Len(wire) /\ wire'[Len(wire')].ev = "new_message") =>
       LET e == wire'[Len(wire')]
       IN  \A s \in e.to : \A c \in Convs :
             e.room = ConvRoom(c) =>
               /\ <<c, connUser[s]>> \in DOMAIN participant
               /\ participant[<<c, connUser[s]>>].isActive]_vars

\* C28: every read receipt is for a Message of the conversation that the
\* request which created it named, a conversation in which the receipt's
\* user holds an active participant row.
C28_ReceiptsStayInConversation ==
  \A i \in DOMAIN receipts :
    LET c == messages[receipts[i].messageId].conversationId
    IN  /\ <<c, receipts[i].userId>> \in DOMAIN participant
        /\ participant[<<c, receipts[i].userId>>].isActive
        /\ \E r \in ReadRequests :
             /\ req[r].conv = c
             /\ connUser[req[r].conn] = receipts[i].userId
             /\ receipts[i].messageId \in Range(req[r].ids)

RefreshRequests == {r \in Reqs : req[r].kind = "refresh"}

\* The requests that exchanged refresh token t for a new pair.
Exchanged(t) == {r \in RefreshRequests : req[r].token = t /\ req[r].status = 200}

\* C29: at most one request exchanges a refresh token for a new pair; once
\* one has, the token's session is revoked, and every other request that
\* was answered for the token got 401 and no tokens.
C29_RefreshAtMostOnce ==
  \A t \in DOMAIN sessions :
    /\ Cardinality(Exchanged(t)) <= 1
    /\ Exchanged(t) # {} =>
         /\ ~sessions[t].isActive
         /\ \A r \in RefreshRequests \ Exchanged(t) :
              (req[r].token = t /\ req[r].pc = "done" /\ ~Did(r, "throw")) =>
                (req[r].status = 401 /\ req[r].issued = 0)

\* The allowed calls of key k are at least the window apart.
Spaced(k) ==
  \A i, j \in DOMAIN allowedAt[k] : i < j => allowedAt[k][j] - allowedAt[k][i] >= WindowMs

\* C30: for every key, any two allowed isAllowed calls are at least windowMs
\* apart, however the calls interleave with the cleanup, and a denied call
\* leaves the stored timestamps as they were.
C30_AllowedCallsSpaced ==
  /\ [](\A k \in LimiterKeys : Spaced(k))
  /\ [][(lastCall' # lastCall /\ ~lastCall'.allowed) => requests' = requests]_vars

\* A key was allowed twice, and its last call, within the window of the
\* second, was denied with the end of that window as reset time, while the
\* cleanup has deleted the entry of a key that had been allowed.
C30_Witness ==
  \E k \in LimiterKeys :
    /\ Len(allowedAt[k]) >= 2
    /\ lastCall.key = k /\ ~lastCall.allowed /\ lastCall.status = 429
    /\ lastCall.resetTime = requests[k] + WindowMs
    /\ \E j \in LimiterKeys : Len(allowedAt[j]) >= 1 /\ j \notin DOMAIN requests
====
